---- MODULE Spec2Model ----
(***************************************************************************)
(* Model of ovos_plugin_manager/templates/tts.py: the TTSContext cache     *)
(* registry, TTS.synth / TTS._execute, viseme derivation and the shared    *)
(* playback queue.  Threads call get_cache, synth and execute on engine    *)
(* instances; the steps of one call interleave with those of the others    *)
(* at the reads and writes of the shared state (TTSContext._caches, the    *)
(* caches' cached_sentences, TTS.queue).                                   *)
(***************************************************************************)
EXTENDS Naturals, Sequences, FiniteSets, TLC

\* ------------------------------------------------------------------ bounds
MaxCalls == 2       \* calls (get_cache / synth / execute) started in one run
MaxChunks == 2      \* chunks _preprocess_sentence may return for one sentence
MaxQueue == 2       \* playback items put on the queue in one run
MaxPieces == 3      \* pieces (text, markup, words, separators) in one utterance
MaxTokens == 2      \* tokens in one phoneme string
MaxEngines == 2     \* engines constructed in one run

\* ------------------------------------------------------------- input sets
Threads == {"t1", "t2"}
Sentences == {"hi", "yo"}
NoneStr == "<None>"                       \* Python None where a str is expected
Sessions ==
  { [plugin_id |-> "p", voice |-> "default", lang |-> "en-us"],
    [plugin_id |-> "p", voice |-> "default", lang |-> "pt-pt"] }
EngineConfigs == [enable_cache : BOOLEAN, g2p : BOOLEAN]
AudioExts == {"wav", "mp3"}

\* ---------------------------------------------------------------- strings
startswith(s, p) == Len(s) >= Len(p) /\ SubSeq(s, 1, Len(p)) = p
endswith(s, p) == Len(s) >= Len(p) /\ SubSeq(s, Len(s) - Len(p) + 1, Len(s)) = p

\* os.path.join of two components
join(a, b) ==
  IF startswith(b, "/") THEN b
  ELSE IF a = "" \/ endswith(a, "/") THEN a \o b
  ELSE a \o "/" \o b

\* TTSContext.tts_id
tts_id(session) == join(join(session.plugin_id, session.voice), session.lang)

\* utils.tts_cache.hash_sentence: a deterministic, collision-free fingerprint
\* of the sentence text
hash_sentence(sentence) == "md5(" \o sentence \o ")"

\* ------------------------------------------------------------ python values
\* Optional list: None, or a list (possibly empty)
NoneV == [none |-> TRUE, seq |-> <<>>]
ListV(seq) == [none |-> FALSE, seq |-> seq]
\* truthiness of a str-or-None and of a list-or-None
truthy(str) == str # NoneStr /\ str # ""
truthyV(v) == ~v.none /\ v.seq # <<>>

\* --------------------------------------------------------------- variables
VARIABLES
  caches,        \* TTSContext._caches: tts_id -> index of the cache instance
  instances,     \* every TextToSpeechCache constructed so far, by index
  queue,         \* TTS.queue: the playback items put so far
  th,            \* each thread's position in its call and the call's locals
  ncalls,        \* calls started so far
  playback,      \* TTS.playback: whether a consumer is attached, the stop() calls it got
  fx,            \* the call of a stateless helper: its arguments and what it returned
  tts            \* class TTS: which Queue object TTS.queue is, the engines constructed

vars == <<caches, instances, queue, th, ncalls, playback, fx, tts>>

\* the engine's constructor arguments (TTS.__init__)
EngineAudioExt == "wav"
EngineCacheConfig == "custom"

Idle ==
  [pc |-> "idle", op |-> "none", session |-> CHOOSE s \in Sessions : TRUE,
   eng |-> CHOOSE e \in EngineConfigs : TRUE,
   audio_ext |-> "wav", cache_config |-> NoneStr,
   chunks |-> <<>>, i |-> 0, listen |-> FALSE, msg |-> 0,
   cache |-> 0, hit |-> FALSE, audio |-> NoneStr, phonemes |-> NoneStr,
   nback |-> 0, bk |-> "none", g2pv |-> "none",
   err |-> NoneStr, mraised |-> FALSE]

\* playback = None  (line 95)
NoPlayback == [attached |-> FALSE, stops |-> 0]

\* no helper is being called
NoFx == [fn |-> "none"]

\* queue = None  (line 94): TTS.queue is None (0) or the k-th Queue that was
\* constructed; no engine has been constructed
NoEngine == [queue |-> 0, engines |-> 0]

\* the engines that make the calls have been constructed: TTS.queue is the
\* Queue the first construction created
Constructed == [queue |-> 1, engines |-> 1]

Init ==
  /\ caches = <<>>
  /\ instances = <<>>
  /\ queue = <<>>
  /\ th = [t \in Threads |-> Idle]
  /\ ncalls = 0
  /\ playback = NoPlayback
  /\ fx = NoFx
  /\ tts = Constructed

\* add_metric without its try/except: the handler's exception gets out
add_metric_unguarded(handlerRaises) ==
  IF handlerRaises THEN "raised" ELSE "returned"

\* ------------------------------------------------------------- add_metric
\* TTS.add_metric: handle_metric runs inside try/except Exception
add_metric(handlerRaises) ==
  LET caught == handlerRaises      \* except Exception as e: LOG.exception(e)
  IN IF handlerRaises /\ ~caught THEN "raised" ELSE "returned"

\* a call is over: its locals are gone, what it returned or raised stays
finish(rec) ==
  [Idle EXCEPT !.pc = "done", !.op = rec.op, !.msg = rec.msg, !.err = rec.err,
               !.hit = rec.hit, !.nback = rec.nback, !.mraised = rec.mraised,
               !.i = rec.i, !.bk = rec.bk, !.g2pv = rec.g2pv,
               !.session = IF rec.op = "execute" THEN Idle.session ELSE rec.session,
               !.audio_ext = IF rec.op = "get_cache" THEN rec.audio_ext ELSE Idle.audio_ext,
               !.cache = IF rec.op = "execute" THEN 0 ELSE rec.cache,
               !.audio = IF rec.op = "synth" THEN rec.audio ELSE NoneStr,
               !.phonemes = IF rec.op = "synth" THEN rec.phonemes ELSE NoneStr]

\* a step's thread record after the add_metric calls the step makes, the
\* handler raising in them or not: an exception that add_metric lets
\* through ends the call
after_metrics(rec, handlerRaises) ==
  LET r == [rec EXCEPT !.mraised = @ \/ handlerRaises]
      s == IF add_metric(handlerRaises) = "raised" /\ rec.err = NoneStr
           THEN [r EXCEPT !.pc = "done", !.err = "MetricHandlerError"]
           ELSE r
  IN IF s.pc = "done" THEN finish(s) ELSE s

\* --------------------------------------------------------- TTSContext cache
\* TextToSpeechCache(cache_config, tts_id, audio_ext): an empty cache
TextToSpeechCache(cache_config, id, audio_ext) ==
  [config |-> cache_config, tts_id |-> id, audio_file_type |-> audio_ext,
   cached_sentences |-> <<>>]

\* cache_config or {...defaults...}  (get_cache, lines 58-63)
effective_config(cache_config) ==
  IF truthy(cache_config) THEN cache_config ELSE "default"

\* dict assignment d[k] = v
dict_set(d, k, v) == [x \in DOMAIN d \cup {k} |-> IF x = k THEN v ELSE d[x]]

\* get_cache without the test of line 64: it constructs a cache every time
get_cache_check_always(session) == TRUE

\* if self.tts_id not in TTSContext._caches  (line 64)
get_cache_check(session) == tts_id(session) \notin DOMAIN caches

\* TTSContext._caches[self.tts_id] = TextToSpeechCache(...)  (lines 65-67)
get_cache_create(session, audio_ext, cache_config) ==
  /\ instances' = Append(instances,
        TextToSpeechCache(effective_config(cache_config), tts_id(session), audio_ext))
  /\ caches' = dict_set(caches, tts_id(session), Len(instances) + 1)

\* cache.define_audio_file(sentence_hash): the audio artifact's path
define_audio_file(cache, sentence_hash) ==
  instances[cache].tts_id \o "/" \o sentence_hash \o "." \o instances[cache].audio_file_type

\* a call starts: a thread that is idle, or whose previous call is over
CanCall(t) == th[t].pc \in {"idle", "done"} /\ ncalls < MaxCalls

\* TTSContext(session).get_cache(audio_ext, cache_config), up to the test
\* of line 64
GetCacheCall(t, session, audio_ext, cache_config) ==
  /\ CanCall(t)
  /\ ncalls' = ncalls + 1
  /\ th' = [th EXCEPT ![t] = [Idle EXCEPT
        !.op = "get_cache", !.session = session, !.audio_ext = audio_ext,
        !.cache_config = cache_config, !.msg = ncalls + 1,
        !.pc = IF get_cache_check(session) THEN "gc_create" ELSE "gc_return"]]
  /\ UNCHANGED <<caches, instances, queue, playback, fx, tts>>

\* lines 65-67: construct the cache and register it
GetCacheCreate(t) ==
  /\ th[t].pc = "gc_create"
  /\ get_cache_create(th[t].session, th[t].audio_ext, th[t].cache_config)
  /\ th' = [th EXCEPT ![t].pc = "gc_return"]
  /\ UNCHANGED <<queue, ncalls, playback, fx, tts>>

\* line 68: return self._caches[self.tts_id]
GetCacheReturn(t) ==
  /\ th[t].pc = "gc_return"
  /\ LET me == [th[t] EXCEPT !.cache = caches[tts_id(th[t].session)]]
     IN th' = [th EXCEPT ![t] =
          IF me.op = "get_cache" THEN finish(me) ELSE [me EXCEPT !.pc = "lookup"]]
  /\ UNCHANGED <<caches, instances, queue, ncalls, playback, fx, tts>>

\* ---------------------------------------------------------------- visemes
\* ovos_utils.lang.visimes.VISIMES (some of its entries; its keys are lower case)
VISIMES == [p \in {"v", "ah", "hh", "pau"} |->
              IF p = "v" THEN "5" ELSE IF p = "pau" THEN "4" ELSE "0"]

\* dict.get(key, default)
dict_get(d, k, default) == IF k \in DOMAIN d THEN d[k] ELSE default

\* index of the first sep in s, 0 when there is none
find(s, sep) ==
  LET hits == {k \in 1..Len(s) : SubSeq(s, k, k) = sep}
  IN IF hits = {} THEN 0 ELSE CHOOSE k \in hits : \A j \in hits : k <= j

\* str.split(sep) for a separator of one character
RECURSIVE split(_, _)
split(s, sep) ==
  LET k == find(s, sep)
  IN IF k = 0 THEN <<s>>
     ELSE <<SubSeq(s, 1, k - 1)>> \o split(SubSeq(s, k + 1, Len(s)), sep)

\* a float() that drops the fraction
float_whole(s) == 10 * CASE SubSeq(s, 1, 1) = "0" -> 0 [] SubSeq(s, 1, 1) = "1" -> 1 [] OTHER -> 2

\* float(str) of a decimal "d.d", in tenths of a second
Digits == [c \in {"0", "1", "2", "3", "4", "5", "6", "7", "8", "9"} |->
             CASE c = "0" -> 0 [] c = "1" -> 1 [] c = "2" -> 2 [] c = "3" -> 3
               [] c = "4" -> 4 [] c = "5" -> 5 [] c = "6" -> 6 [] c = "7" -> 7
               [] c = "8" -> 8 [] c = "9" -> 9]
float(s) ==
  LET parts == split(s, ".")
  IN 10 * Digits[parts[1]] + Digits[parts[2]]

\* float(0.2), in tenths of a second  (line 555)
DefaultDuration == 2

\* TTS.viseme  (lines 532-556)
RECURSIVE viseme_pairs(_)
viseme_pairs(phones) ==
  IF phones = <<>> THEN <<>>
  ELSE LET pair == Head(phones)
           pho_dur == split(pair, ":")
           this == IF find(pair, ":") # 0
                   THEN IF Len(pho_dur) = 2
                        THEN << <<dict_get(VISIMES, pho_dur[1], "4"), float(pho_dur[2])>> >>
                        ELSE <<>>
                   ELSE << <<dict_get(VISIMES, pair, "4"), DefaultDuration>> >>
       IN this \o viseme_pairs(Tail(phones))

viseme(phonemes) ==
  LET visimes == IF truthy(phonemes) THEN viseme_pairs(split(phonemes, " ")) ELSE <<>>
  IN IF visimes # <<>> THEN ListV(visimes) ELSE NoneV      \* visimes or None

\* what g2p.utterance2visemes may do: return a list, or raise
G2PVisemeOutcomes ==
  { [kind |-> "return", value |-> <<>>],
    [kind |-> "return", value |-> << <<"0", 1>>, <<"3", 1>> >>],
    [kind |-> "OutOfVocabulary", value |-> <<>>],
    [kind |-> "Exception", value |-> <<>>] }

\* _get_visemes without the bare except: only OutOfVocabulary is caught
get_visemes_unplanned_raises(phonemes, g2p, out) ==
  IF ~truthy(phonemes) /\ g2p /\ out.kind = "Exception"
  THEN [exc |-> "Exception", viseme |-> ListV(<<>>)]
  ELSE IF ~truthy(phonemes) /\ g2p /\ out.kind = "return"
  THEN [exc |-> NoneStr, viseme |-> ListV(out.value)]
  ELSE [exc |-> NoneStr, viseme |-> ListV(<<>>)]

\* a queue that hands out the newest item first
queue_put_front(q, item) == <<item>> \o q

\* _get_visemes asks the G2P provider: elif self.g2p is not None  (line 436)
g2p_asked(phonemes, g2p) == ~truthy(phonemes) /\ g2p

\* TTS._get_visemes  (lines 431-448): the exception it lets through, if any,
\* and the viseme it returns
get_visemes(phonemes, g2p, out) ==
  LET initial == ListV(<<>>)                                      \* viseme = []
  IN IF truthy(phonemes) THEN [exc |-> NoneStr, viseme |-> viseme(phonemes)]
     ELSE IF g2p
          THEN IF out.kind = "return" THEN [exc |-> NoneStr, viseme |-> ListV(out.value)]
               ELSE [exc |-> NoneStr, viseme |-> initial]  \* except OutOfVocabulary: / except:
          ELSE [exc |-> NoneStr, viseme |-> initial]

\* a queue with room for one item, as Queue(1) is
queue_full_at_one(q) == Len(q) >= 1

\* TTS.queue = Queue(): maxsize 0, a queue without bound  (line 118)
queue_maxsize == 0

\* Queue.put blocks while the queue is full: 0 < maxsize <= qsize()
queue_full(q) == queue_maxsize > 0 /\ Len(q) >= queue_maxsize

\* TTS.queue.put(item)  (line 479)
queue_put(q, item) == Append(q, item)

\* ------------------------------------------------------------------ synth
\* positional parameters of TTS.get_from_cache besides self  (line 688)
GetFromCacheParams == 1

\* TTSContext.get_from_cache(sentence, ...)  (lines 70-78), as a lookup
TTSContext_get_from_cache(session, sentence) ==
  LET id == tts_id(session)
      h == hash_sentence(sentence)
  IN IF id \in DOMAIN caches /\ h \in DOMAIN instances[caches[id]].cached_sentences
     THEN LET e == instances[caches[id]].cached_sentences[h]
          IN [exc |-> NoneStr, audio |-> e.audio, phonemes |-> e.pho]
     ELSE [exc |-> "KeyError", audio |-> NoneStr, phonemes |-> NoneStr]

\* TTS.get_from_cache(self, sentence)  (lines 686-689): it takes one argument
\* and looks the sentence up in the default session's cache
get_from_cache(args) ==
  IF Len(args) # GetFromCacheParams
  THEN [exc |-> "TypeError", audio |-> NoneStr, phonemes |-> NoneStr]
  ELSE TTSContext_get_from_cache(CHOOSE x \in Sessions : TRUE, args[1])

\* what g2p.utterance2arpa may do: return a phoneme string, or raise
G2PArpaOutcomes ==
  { [kind |-> "return", value |-> "hh ah"],
    [kind |-> "Exception", value |-> ""] }

\* TTS._cache_phonemes  (lines 559-571): the content of the phoneme file it
\* saves, NoneStr when it returns None; "AttributeError" when its cache
\* argument is not a cache
cache_phonemes(cache_is_cache, phonemes, g2p, arpa) ==
  LET p == IF ~truthy(phonemes) /\ g2p /\ arpa.kind = "return"
           THEN arpa.value ELSE phonemes
  IN IF truthy(p)
     THEN IF cache_is_cache THEN p ELSE "AttributeError"
     ELSE NoneStr

\* the cache-hit branch of synth  (lines 503-509)
synth_hit(sentence, cache, g2p, arpa) ==
  LET r == get_from_cache(<<sentence, cache>>)                     \* line 503
  IN IF r.exc # NoneStr THEN r
     ELSE IF truthy(r.phonemes) THEN r
     ELSE \* line 506 binds sentence_hash to the cache parameter, and line
          \* 507 calls load() on what _cache_phonemes returned
          LET pho_file == cache_phonemes(FALSE, NoneStr, g2p, arpa)
          IN [exc |-> "AttributeError", audio |-> r.audio, phonemes |-> pho_file]

\* what get_tts may do: return (wav_file, phonemes), return None, or raise
BackendPhonemes == {NoneStr, "hh:0.1 V", "ah:0.1:0"}
BackendOutcomes ==
  [kind : {"return"}, phonemes : BackendPhonemes]
    \cup { [kind |-> "None", phonemes |-> NoneStr],
           [kind |-> "Exception", phonemes |-> NoneStr] }

\* the listen flag on every chunk
chunk_flags_all(chunks, listen) ==
  [k \in 1..Len(chunks) |-> <<chunks[k], listen>>]

\* chunks = [(chunks[i], listen if i == len(chunks) - 1 else False) ...]
\* (lines 457-458)
chunk_flags(chunks, listen) ==
  [k \in 1..Len(chunks) |-> <<chunks[k], IF k = Len(chunks) THEN listen ELSE FALSE>>]

ChunkLists == UNION {[1..n -> Sentences] : n \in 0..MaxChunks}

\* TTS.execute / TTS._execute up to the loop  (lines 418-468)
ExecuteCall(t, e, session, chunks, listen, mf) ==
  /\ CanCall(t)
  /\ Len(queue) + Len(chunks) <= MaxQueue
  /\ ncalls' = ncalls + 1
  /\ th' = [th EXCEPT ![t] = after_metrics([Idle EXCEPT
        !.op = "execute", !.eng = e, !.session = session, !.msg = ncalls + 1,
        !.chunks = chunk_flags(chunks, listen), !.listen = listen, !.i = 1,
        !.pc = IF chunks = <<>> THEN "done" ELSE "synth"], mf)]
  /\ UNCHANGED <<caches, instances, queue, playback, fx, tts>>

\* a direct call of TTS.synth(sentence, ctxt)
SynthCall(t, e, session, sentence) ==
  /\ CanCall(t)
  /\ ncalls' = ncalls + 1
  /\ th' = [th EXCEPT ![t] = [Idle EXCEPT
        !.op = "synth", !.eng = e, !.session = session, !.msg = ncalls + 1,
        !.chunks = <<<<sentence, FALSE>>>>, !.i = 1, !.pc = "synth"]]
  /\ UNCHANGED <<caches, instances, queue, playback, fx, tts>>

\* synth, lines 490-499, and get_cache's test of line 64
SynthStart(t, mf) ==
  /\ th[t].pc = "synth"
  /\ th' = [th EXCEPT ![t] = after_metrics([th[t] EXCEPT
        !.audio_ext = EngineAudioExt, !.cache_config = EngineCacheConfig,
        !.hit = FALSE, !.audio = NoneStr, !.phonemes = NoneStr,
        !.bk = "none", !.g2pv = "none",
        !.pc = IF get_cache_check(th[t].session) THEN "gc_create" ELSE "gc_return"], mf)]
  /\ UNCHANGED <<caches, instances, queue, ncalls, playback, fx, tts>>

\* after synth returned, _execute goes on to the viseme and the queue
after_synth(rec) == IF rec.op = "synth" THEN "done" ELSE "enqueue"

\* a loop that notes the exception of a chunk and goes on with the chunk
raise_and_go_on(rec, exc) == [rec EXCEPT !.err = exc, !.pc = after_synth(rec)]

\* the call ends by raising exc
raise(rec, exc) == finish([rec EXCEPT !.pc = "done", !.err = exc])

\* a test of the cache alone
cache_hit_whenever_cached(enable_cache, sentence_hash, cache) ==
  sentence_hash \in DOMAIN instances[cache].cached_sentences

\* if self.enable_cache and sentence_hash in cache  (line 502)
cache_hit(enable_cache, sentence_hash, cache) ==
  enable_cache /\ sentence_hash \in DOMAIN instances[cache].cached_sentences

\* synth, lines 502-512: the cache lookup; a hit returns or raises, a miss
\* allocates the audio file
SynthLookup(t, arpa, mf) ==
  /\ th[t].pc = "lookup"
  /\ LET me == th[t]
         sentence == me.chunks[me.i][1]
         h == hash_sentence(sentence)
         hit == cache_hit(me.eng.enable_cache, h, me.cache)
         r == synth_hit(sentence, me.cache, me.eng.g2p, arpa)
     IN th' = [th EXCEPT ![t] =
          IF hit
          THEN IF r.exc # NoneStr
               THEN raise([me EXCEPT !.hit = TRUE], r.exc)
               ELSE after_metrics([me EXCEPT !.hit = TRUE, !.audio = r.audio,
                                   !.phonemes = r.phonemes, !.pc = after_synth(me)], mf)
          ELSE [me EXCEPT !.audio = define_audio_file(me.cache, h), !.pc = "get_tts"]]
  /\ UNCHANGED <<caches, instances, queue, ncalls, playback, fx, tts>>

\* TTS._cache_sentence  (lines 573-580)
cache_sentence(cache, sentence_hash, audio_file, phonemes, g2p, arpa) ==
  LET pho_file == cache_phonemes(TRUE, phonemes, g2p, arpa)
  IN instances' = [instances EXCEPT ![cache].cached_sentences =
                     dict_set(@, sentence_hash, [audio |-> audio_file, pho |-> pho_file])]

\* a synth that catches the backend's exception and goes on
get_tts_swallowed(rec) == [rec EXCEPT !.pc = IF rec.op = "synth" THEN "done" ELSE "enqueue"]

\* get_tts raised: nothing in synth, _execute or execute catches it
get_tts_raised(rec) == raise(rec, "BackendError")

\* synth, lines 514-530: the backend call and the cache fill
GetTts(t, out, arpa, mf) ==
  /\ th[t].pc = "get_tts"
  /\ LET me == [th[t] EXCEPT !.nback = @ + 1, !.bk = out.kind]
         h == hash_sentence(me.chunks[me.i][1])
     IN IF out.kind = "Exception"
        THEN /\ th' = [th EXCEPT ![t] = get_tts_raised(me)]
             /\ UNCHANGED instances
        ELSE IF out.kind = "None"         \* audio.path, phonemes = None
        THEN /\ th' = [th EXCEPT ![t] = raise(me, "TypeError")]
             /\ UNCHANGED instances
        ELSE /\ th' = [th EXCEPT ![t] = after_metrics([me EXCEPT
                   !.phonemes = out.phonemes, !.pc = after_synth(me)], mf)]
             /\ IF me.eng.enable_cache
                THEN cache_sentence(me.cache, h, me.audio, out.phonemes, me.eng.g2p, arpa)
                ELSE UNCHANGED instances
  /\ UNCHANGED <<caches, queue, ncalls, playback, fx, tts>>

\* _execute, lines 476-484: the viseme, the playback item and the next chunk
Enqueue(t, g2pv, mf) ==
  /\ th[t].pc = "enqueue"
  /\ ~queue_full(queue)
  /\ LET me == [th[t] EXCEPT !.g2pv = IF g2p_asked(th[t].phonemes, th[t].eng.g2p)
                                      THEN g2pv.kind ELSE "none"]
         v == get_visemes(me.phonemes, me.eng.g2p, g2pv)
         item == [audio |-> me.audio,
                  viseme |-> v.viseme,
                  listen |-> me.chunks[me.i][2],
                  tts_id |-> tts_id(me.session),
                  message |-> me.msg]
     IN IF v.exc # NoneStr
        THEN /\ th' = [th EXCEPT ![t] = raise(me, v.exc)]
             /\ UNCHANGED queue
        ELSE /\ queue' = queue_put(queue, item)
             /\ th' = [th EXCEPT ![t] = after_metrics([me EXCEPT
                   !.i = @ + 1,
                   !.pc = IF me.i = Len(me.chunks) THEN "done" ELSE "synth"], mf)]
  /\ UNCHANGED <<caches, instances, ncalls, playback, fx, tts>>

\* ------------------------------------------------------------------- SSML
\* sub in s
contains(s, sub) ==
  \E k \in 1..(Len(s) + 1) :
    k + Len(sub) - 1 <= Len(s) /\ SubSeq(s, k, k + Len(sub) - 1) = sub

\* s.find(sub), counted from 1; 0 when sub is not in s
index_of(s, sub) ==
  LET hits == {k \in 1..(Len(s) + 1) :
                 k + Len(sub) - 1 <= Len(s) /\ SubSeq(s, k, k + Len(sub) - 1) = sub}
  IN IF hits = {} THEN 0 ELSE CHOOSE k \in hits : \A j \in hits : k <= j

\* s.replace(old, new) for a non-empty old: every occurrence, left to right,
\* without overlap
RECURSIVE replace(_, _, _)
replace(s, old, new) ==
  LET k == index_of(s, old)
  IN IF k = 0 THEN s
     ELSE SubSeq(s, 1, k - 1) \o new
            \o replace(SubSeq(s, k + Len(old), Len(s)), old, new)

\* s.split(sep, 1)
split1(s, sep) ==
  LET k == index_of(s, sep)
  IN IF k = 0 THEN <<s>>
     ELSE <<SubSeq(s, 1, k - 1), SubSeq(s, k + Len(sep), Len(s))>>

\* the first match of <[^>]*> in text: where it starts and ends, <<0, 0>>
\* when there is none.  A '<' with no '>' after it starts no match, and then
\* no later '<' does.
first_tag(text) ==
  LET a == index_of(text, "<")
      b == IF a = 0 THEN 0 ELSE index_of(SubSeq(text, a + 1, Len(text)), ">")
  IN IF a = 0 \/ b = 0 THEN <<0, 0>> ELSE <<a, a + b>>

\* SSML_TAGS.findall(text)  (lines 30, 305)
RECURSIVE findall(_)
findall(text) ==
  LET m == first_tag(text)
  IN IF m[1] = 0 THEN <<>>
     ELSE <<SubSeq(text, m[1], m[2])>> \o findall(SubSeq(text, m[2] + 1, Len(text)))

\* re.sub('<[^>]*>', '', text)  (line 241)
RECURSIVE re_sub(_)
re_sub(text) ==
  LET m == first_tag(text)
  IN IF m[1] = 0 THEN text
     ELSE SubSeq(text, 1, m[1] - 1) \o re_sub(SubSeq(text, m[2] + 1, Len(text)))

\* a remove_ssml that returns its argument
remove_ssml_nothing(text) == text

\* TTS.remove_ssml  (lines 231-241)
remove_ssml(text) == replace(re_sub(text), "  ", " ")

\* the characters of a string
chars(s) == {SubSeq(s, k, k) : k \in 1..Len(s)}

\* s.lstrip(cs) and s.rstrip(cs): cs is a set of characters
RECURSIVE lstrip(_, _)
lstrip(s, cs) ==
  IF s # "" /\ SubSeq(s, 1, 1) \in cs THEN lstrip(SubSeq(s, 2, Len(s)), cs) ELSE s

RECURSIVE rstrip(_, _)
rstrip(s, cs) ==
  IF s # "" /\ SubSeq(s, Len(s), Len(s)) \in cs
  THEN rstrip(SubSeq(s, 1, Len(s) - 1), cs) ELSE s

\* TTS.format_speak_tags  (lines 243-280)
format_speak_tags(sentence, include_tags) ==
  LET open == "<speak>"
      close == "</speak>"
      wrapped == IF ~contains(sentence, open) /\ ~contains(sentence, close)
                 THEN open \o sentence \o close
                 ELSE IF ~contains(sentence, open) THEN open \o sentence
                 ELSE IF ~contains(sentence, close) THEN sentence \o close
                 ELSE sentence
      \* the branches above leave a <speak> in the text, so [1] exists
      head == IF startswith(wrapped, open) THEN wrapped
              ELSE open \o split1(wrapped, open)[2]
      to_speak == IF endswith(head, close) THEN head
                  ELSE split1(head, close)[1] \o close
  IN IF to_speak = "<speak></speak>" THEN ""
     ELSE IF include_tags THEN to_speak
     ELSE rstrip(lstrip(to_speak, chars(open)), chars(close))

\* TTS.modify_tag  (lines 201-207)
modify_tag(tag) == tag

\* a test of the tag's name: the tag is <name> exactly
tag_supported_exactly(tag, ssml_tags) ==
  \E supported \in ssml_tags : tag = "<" \o supported \o ">"

\* any(supported in tag for supported in self.ssml_tags)  (line 308)
tag_supported(tag, ssml_tags) ==
  \E supported \in ssml_tags : contains(tag, supported)

\* the loop of validate_ssml  (lines 307-312): tags are those found in the
\* utterance it was given, each replaced in the utterance as it is by then
RECURSIVE filter_tags(_, _, _)
filter_tags(utterance, tags, ssml_tags) ==
  IF tags = <<>> THEN utterance
  ELSE LET tag == Head(tags)
           u == IF tag_supported(tag, ssml_tags)
                THEN replace(utterance, tag, modify_tag(tag))
                ELSE replace(utterance, tag, "")
       IN filter_tags(u, Tail(tags), ssml_tags)

\* TTS.validate_ssml  (lines 282-315): what it returns, and what the call
\* of format_speak_tags it makes first returned (it is not assigned)
validate_ssml(ssml_tags, utterance) ==
  LET speak == IF ssml_tags = {} \/ "speak" \notin ssml_tags
               THEN format_speak_tags(utterance, FALSE)
               ELSE format_speak_tags(utterance, TRUE)
      out == IF ssml_tags = {} THEN remove_ssml(utterance)
             ELSE replace(filter_tags(utterance, findall(utterance), ssml_tags), "  ", " ")
  IN [out |-> out, speak |-> speak]

\* the utterances: up to MaxPieces pieces of text and markup
Pieces == {"<speak>", "</speak>", "<b>", "hi", " ", "<", ">"}

RECURSIVE concat(_)
concat(seq) == IF seq = <<>> THEN "" ELSE Head(seq) \o concat(Tail(seq))

Utterances == {concat(ps) : ps \in UNION {[1..n -> Pieces] : n \in 0..MaxPieces}}

\* the engines' ssml_tags  (line 112)
TagSets == {{}, {"speak"}, {"b"}, {"s"}, {"speak", "b"}}

\* a call of validate_ssml is to be made
InitSsml ==
  /\ caches = <<>> /\ instances = <<>> /\ queue = <<>>
  /\ th = [t \in Threads |-> Idle] /\ ncalls = 0 /\ playback = NoPlayback
  /\ tts = Constructed
  /\ fx \in [fn : {"validate_ssml", "format_speak_tags"}, pc : {"call"},
             utterance : Utterances, ssml_tags : TagSets,
             out : {NoneStr}, speak : {NoneStr}]

\* self.validate_ssml(utterance)
ValidateSsml ==
  /\ fx.fn = "validate_ssml" /\ fx.pc = "call"
  /\ LET r == validate_ssml(fx.ssml_tags, fx.utterance)
     IN fx' = [fx EXCEPT !.pc = "done", !.out = r.out, !.speak = r.speak]
  /\ UNCHANGED <<caches, instances, queue, th, ncalls, playback, tts>>

\* TTS.format_speak_tags(utterance), called on its own
FormatSpeakTags ==
  /\ fx.fn = "format_speak_tags" /\ fx.pc = "call"
  /\ fx' = [fx EXCEPT !.pc = "done", !.out = format_speak_tags(fx.utterance, TRUE),
                      !.speak = format_speak_tags(fx.utterance, FALSE)]
  /\ UNCHANGED <<caches, instances, queue, th, ncalls, playback, tts>>

NextSsml == ValidateSsml \/ FormatSpeakTags

SpecSsml == InitSsml /\ [][NextSsml]_vars

\* ------------------------------------------------- synth: keyword arguments
\* the signatures a plugin may give get_tts: sentence and wav_file, then any
\* of lang, voice and speed, *args and **kwargs; each parameter name with
\* its kind  (inspect.signature(self.get_tts).parameters)
Signatures ==
  { [n \in {"sentence", "wav_file"} \cup opt |->
       IF n = "args" THEN "VAR_POSITIONAL"
       ELSE IF n = "kwargs" THEN "VAR_KEYWORD"
       ELSE "POSITIONAL_OR_KEYWORD"] :
    opt \in SUBSET {"lang", "voice", "speed", "args", "kwargs"} }

\* the keyword arguments a caller may give synth
CallerKwargs ==
  UNION { [ks -> {"given"}] :
          ks \in SUBSET {"lang", "voice", "speed", "message", "wav_file", "args"} }

\* a synth that sets lang and voice only when the caller gave none
synth_kwargs_setdefault(kwargs, session) ==
  LET with_lang == IF "lang" \in DOMAIN kwargs THEN kwargs
                   ELSE dict_set(kwargs, "lang", session.lang)
  IN IF "voice" \in DOMAIN with_lang THEN with_lang
     ELSE dict_set(with_lang, "voice", session.voice)

\* kwargs["lang"] = ctxt.lang; kwargs["voice"] = ctxt.voice  (lines 497-498)
synth_kwargs(kwargs, session) ==
  dict_set(dict_set(kwargs, "lang", session.lang), "voice", session.voice)

\* a filter that keeps every key the signature has
filter_kwargs_declared(kwargs, parameters) ==
  [k \in {x \in DOMAIN kwargs : x \in DOMAIN parameters} |-> kwargs[k]]

\* {k: v for k, v in kwargs.items() if k in inspect.signature(self.get_tts)
\*  .parameters and k not in ["sentence", "wav_file"]}  (lines 518-520)
filter_kwargs(kwargs, parameters) ==
  [k \in {x \in DOMAIN kwargs :
            x \in DOMAIN parameters /\ x \notin {"sentence", "wav_file"}} |-> kwargs[k]]

\* self.get_tts(sentence, str(audio), **kwargs)  (line 523): how Python binds
\* the arguments; the exception the call raises before get_tts runs, if any
call_get_tts(parameters, kwargs) ==
  LET named == {n \in DOMAIN parameters : parameters[n] = "POSITIONAL_OR_KEYWORD"}
      var_keyword == \E n \in DOMAIN parameters : parameters[n] = "VAR_KEYWORD"
  IN IF \E k \in DOMAIN kwargs : k \in {"sentence", "wav_file"}
     THEN "TypeError"                     \* multiple values for the argument
     ELSE IF \E k \in DOMAIN kwargs : k \notin named /\ ~var_keyword
     THEN "TypeError"                     \* unexpected keyword argument
     ELSE NoneStr

\* a call of synth is to be made with keyword arguments, on an engine whose
\* get_tts has some signature
InitKwargs ==
  /\ caches = <<>> /\ instances = <<>> /\ queue = <<>>
  /\ th = [t \in Threads |-> Idle] /\ ncalls = 0 /\ playback = NoPlayback
  /\ tts = Constructed
  /\ fx \in [fn : {"synth"}, pc : {"call"}, kwargs : CallerKwargs,
             parameters : Signatures, session : Sessions,
             passed : {<<>>}, exc : {NoneStr}]

\* synth, lines 497-498 and 518-523: the keyword arguments get_tts is
\* called with
SynthKwargs ==
  /\ fx.fn = "synth" /\ fx.pc = "call"
  /\ LET kwargs == filter_kwargs(synth_kwargs(fx.kwargs, fx.session), fx.parameters)
     IN fx' = [fx EXCEPT !.pc = "done", !.passed = kwargs,
                         !.exc = call_get_tts(fx.parameters, kwargs)]
  /\ UNCHANGED <<caches, instances, queue, th, ncalls, playback, tts>>

NextKwargs == SynthKwargs

SpecKwargs == InitKwargs /\ [][NextKwargs]_vars

\* ------------------------------------------------------ viseme on its own
\* the phonemes and the durations a phoneme string is made of; a duration
\* with its text and its value in tenths of a second
Phonemes == {"hh", "ah", "v", "HH", "zz"}
Durations == { [text |-> "0.1", tenths |-> 1], [text |-> "0.2", tenths |-> 2],
               [text |-> "1.5", tenths |-> 15] }
Tokens == [pho : Phonemes, timed : BOOLEAN, dur : Durations]

\* a token as it is written: phoneme, or phoneme:duration
token_text(tk) == IF tk.timed THEN tk.pho \o ":" \o tk.dur.text ELSE tk.pho

\* " ".join(tokens)
RECURSIVE join_tokens(_)
join_tokens(tks) ==
  IF tks = <<>> THEN ""
  ELSE IF Len(tks) = 1 THEN token_text(tks[1])
  ELSE token_text(tks[1]) \o " " \o join_tokens(Tail(tks))

\* a call of viseme is to be made on a string of 1..MaxTokens tokens
InitViseme ==
  /\ caches = <<>> /\ instances = <<>> /\ queue = <<>>
  /\ th = [t \in Threads |-> Idle] /\ ncalls = 0 /\ playback = NoPlayback
  /\ tts = Constructed
  /\ \E tks \in UNION {[1..n -> Tokens] : n \in 1..MaxTokens} :
       fx = [fn |-> "viseme", pc |-> "call", tokens |-> tks,
             phonemes |-> join_tokens(tks), out |-> NoneV]

\* self.viseme(phonemes)
Viseme ==
  /\ fx.fn = "viseme" /\ fx.pc = "call"
  /\ fx' = [fx EXCEPT !.pc = "done", !.out = viseme(fx.phonemes)]
  /\ UNCHANGED <<caches, instances, queue, th, ncalls, playback, tts>>

NextViseme == Viseme

SpecViseme == InitViseme /\ [][NextViseme]_vars

\* ------------------------------------------------------ phonetic spellings
\* the letters, str.lower() of a character and of a string
LowerCase == "abcdefghijklmnopqrstuvwxyz"
UpperCase == "ABCDEFGHIJKLMNOPQRSTUVWXYZ"

lower_char(c) ==
  LET k == index_of(UpperCase, c)
  IN IF k = 0 THEN c ELSE SubSeq(LowerCase, k, k)

RECURSIVE lower(_)
lower(s) ==
  IF s = "" THEN "" ELSE lower_char(SubSeq(s, 1, 1)) \o lower(SubSeq(s, 2, Len(s)))

\* a character that [\w'] matches
word_char(c) == c \in chars(LowerCase) \cup chars(UpperCase) \cup chars("0123456789_'")

\* the length of the run of word characters s starts with
word_run(s) ==
  Cardinality({k \in 1..Len(s) : \A j \in 1..k : word_char(SubSeq(s, j, j))})

\* re.findall(r"[\w']+", sentence)  (line 425): the maximal runs of word
\* characters, left to right
RECURSIVE findall_words(_)
findall_words(sentence) ==
  IF sentence = "" THEN <<>>
  ELSE LET n == word_run(sentence)
       IN IF n = 0 THEN findall_words(SubSeq(sentence, 2, Len(sentence)))
          ELSE <<SubSeq(sentence, 1, n)>>
                 \o findall_words(SubSeq(sentence, n + 1, Len(sentence)))

\* the loop of _replace_phonetic_spellings  (lines 425-428): the words are
\* those found in the sentence it was given, each replaced in the sentence
\* as it is by then
RECURSIVE replace_words(_, _, _)
replace_words(sentence, words, spellings) ==
  IF words = <<>> THEN sentence
  ELSE LET word == Head(words)
           s == IF lower(word) \in DOMAIN spellings
                THEN replace(sentence, word, spellings[lower(word)])
                ELSE sentence
       IN replace_words(s, Tail(words), spellings)

\* TTS._replace_phonetic_spellings  (lines 423-429)
replace_phonetic_spellings(phonetic_spelling, spellings, sentence) ==
  IF phonetic_spelling
  THEN replace_words(sentence, findall_words(sentence), spellings)
  ELSE sentence

\* the sentences: up to MaxPieces words and separators
WordPieces == {"ai", "Ai", "said", "hi", " ", "'", "."}
SpokenSentences == {concat(ps) : ps \in UNION {[1..n -> WordPieces] : n \in 0..MaxPieces}}

\* the spelling tables load_spellings may return  (lines 364-381)
SpellingTables ==
  { <<>>, "ai" :> "A.I.", ("ai" :> "A.I.") @@ ("hi" :> "high"), "said" :> "sed" }

\* a call of _replace_phonetic_spellings is to be made
InitSpellings ==
  /\ caches = <<>> /\ instances = <<>> /\ queue = <<>>
  /\ th = [t \in Threads |-> Idle] /\ ncalls = 0 /\ playback = NoPlayback
  /\ tts = Constructed
  /\ fx \in [fn : {"replace_phonetic_spellings"}, pc : {"call"},
             sentence : SpokenSentences, phonetic_spelling : BOOLEAN,
             spellings : SpellingTables, out : {NoneStr}]

\* self._replace_phonetic_spellings(sentence)
ReplacePhoneticSpellings ==
  /\ fx.fn = "replace_phonetic_spellings" /\ fx.pc = "call"
  /\ fx' = [fx EXCEPT !.pc = "done",
              !.out = replace_phonetic_spellings(fx.phonetic_spelling, fx.spellings,
                                                 fx.sentence)]
  /\ UNCHANGED <<caches, instances, queue, th, ncalls, playback, tts>>

NextSpellings == ReplacePhoneticSpellings

SpecSpellings == InitSpellings /\ [][NextSpellings]_vars

\* ------------------------------------------------------------------- stop
\* TTS.init / TTS._init_playback: TTS.playback = playback  (line 355)
InitPlayback ==
  /\ ~playback.attached
  /\ playback' = [playback EXCEPT !.attached = TRUE]
  /\ UNCHANGED <<caches, instances, queue, th, ncalls, fx, tts>>

\* what TTS.playback.stop() may do: return, or raise
PlaybackStopOutcomes == {"return", "Exception"}

\* a stop that lets the exception of TTS.playback.stop() through
playback_stop_unguarded(attached, outcome) ==
  IF attached /\ outcome = "Exception" THEN "PlaybackError" ELSE NoneStr

\* lines 584-588: try: TTS.playback.stop() / except Exception: pass; the
\* exception that gets out of it
playback_stop(attached, outcome) ==
  LET caught == outcome = "Exception"
  IN IF attached /\ outcome = "Exception" /\ ~caught THEN "PlaybackError" ELSE NoneStr

\* TTS.stop  (lines 583-589)
Stop(t, outcome, mf) ==
  /\ CanCall(t)
  /\ ncalls' = ncalls + 1
  /\ playback' = IF playback.attached                 \* if TTS.playback:
                 THEN [playback EXCEPT !.stops = @ + 1]
                 ELSE playback
  /\ LET exc == playback_stop(playback.attached, outcome)
         me == [Idle EXCEPT !.op = "stop", !.msg = ncalls + 1,
                            !.bk = IF playback.attached THEN outcome ELSE "none"]
     IN th' = [th EXCEPT ![t] =
          IF exc # NoneStr THEN raise(me, exc)
          ELSE after_metrics([me EXCEPT !.pc = "done"], mf)]
  /\ UNCHANGED <<caches, instances, queue, fx, tts>>

\* ----------------------------------------------------------- TTS.__init__
\* a constructor that makes a Queue every time
queue_is_none_always(q) == TRUE

\* if TTS.queue is None  (line 117)
queue_is_none(q) == q = 0

\* no construction is under way on another thread
NoOtherInit(t) == \A u \in Threads \ {t} : ~(th[u].op = "init" /\ th[u].pc # "done")

\* TTS.__init__, lines 97-117: up to the test of the class attribute
InitCall(t) ==
  /\ th[t].pc \in {"idle", "done"}
  /\ tts.engines < MaxEngines
  /\ NoOtherInit(t)
  /\ th' = [th EXCEPT ![t] = [Idle EXCEPT !.op = "init",
        !.pc = IF queue_is_none(tts.queue) THEN "queue_create" ELSE "init_rest"]]
  /\ UNCHANGED <<caches, instances, queue, ncalls, playback, fx, tts>>

\* TTS.queue = Queue()  (line 118): a new, empty queue takes the place of
\* whatever TTS.queue was
InitQueueCreate(t) ==
  /\ th[t].op = "init" /\ th[t].pc = "queue_create"
  /\ tts' = [tts EXCEPT !.queue = @ + 1]
  /\ queue' = <<>>
  /\ th' = [th EXCEPT ![t].pc = "init_rest"]
  /\ UNCHANGED <<caches, instances, ncalls, playback, fx>>

\* TTS.__init__, lines 120-123: the spellings, the G2P provider, the metric
InitReturn(t, mf) ==
  /\ th[t].op = "init" /\ th[t].pc = "init_rest"
  /\ tts' = [tts EXCEPT !.engines = @ + 1]
  /\ th' = [th EXCEPT ![t] = after_metrics([th[t] EXCEPT !.pc = "done"], mf)]
  /\ UNCHANGED <<caches, instances, queue, ncalls, playback, fx>>

\* ----------------------------------------------------------- specification
\* the session of the synth and execute calls
SpeakSession == CHOOSE s \in Sessions : s.lang = "en-us"

\* One caller, whose calls of synth and execute follow one another; the
\* backend, the G2P provider and the metric handler may do anything they can.
Next ==
  \E t \in {"t1"} :
    \/ \E c \in {NoneStr, "custom"} : GetCacheCall(t, SpeakSession, EngineAudioExt, c)
    \/ GetCacheCreate(t)
    \/ GetCacheReturn(t)
    \/ \E e \in EngineConfigs, c \in ChunkLists, l \in BOOLEAN, mf \in BOOLEAN :
         ExecuteCall(t, e, SpeakSession, c, l, mf)
    \/ \E e \in EngineConfigs, x \in Sentences : SynthCall(t, e, SpeakSession, x)
    \/ \E mf \in BOOLEAN : SynthStart(t, mf)
    \/ \E a \in G2PArpaOutcomes, mf \in BOOLEAN : SynthLookup(t, a, mf)
    \/ \E o \in BackendOutcomes, a \in G2PArpaOutcomes, mf \in BOOLEAN : GetTts(t, o, a, mf)
    \/ \E v \in G2PVisemeOutcomes, mf \in BOOLEAN : Enqueue(t, v, mf)

Spec == Init /\ [][Next]_vars

\* Several threads, whose calls interleave at every read and write of the
\* shared state; the engines have no G2P provider, the backend returns no
\* phonemes or raises, the metric handler returns.
QuietEngines == {e \in EngineConfigs : ~e.g2p}
QuietBackend == {o \in BackendOutcomes : o.phonemes = NoneStr /\ o.kind # "None"}
QuietArpa == {a \in G2PArpaOutcomes : a.kind = "Exception"}
QuietVisemes == {v \in G2PVisemeOutcomes : v.kind = "OutOfVocabulary"}

NextConc ==
  \E t \in Threads :
    \/ \E s \in Sessions : GetCacheCall(t, s, EngineAudioExt, NoneStr)
    \/ GetCacheCreate(t)
    \/ GetCacheReturn(t)
    \/ \E e \in QuietEngines, c \in ChunkLists, l \in BOOLEAN :
         ExecuteCall(t, e, SpeakSession, c, l, FALSE)
    \/ \E e \in QuietEngines, x \in Sentences : SynthCall(t, e, SpeakSession, x)
    \/ SynthStart(t, FALSE)
    \/ \E a \in QuietArpa : SynthLookup(t, a, FALSE)
    \/ \E o \in QuietBackend, a \in QuietArpa : GetTts(t, o, a, FALSE)
    \/ \E v \in QuietVisemes : Enqueue(t, v, FALSE)

SpecConc == Init /\ [][NextConc]_vars

\* One caller whose thread keeps running: a call that can take its next
\* step (whatever the backend, the G2P provider and the metric handler
\* return or raise) takes it.  Nothing ever takes an item off the queue.
\* The backend returns no phonemes.
MuteBackend == {o \in BackendOutcomes : o.phonemes = NoneStr}

CallStep(t) ==
  \/ GetCacheCreate(t)
  \/ GetCacheReturn(t)
  \/ \E mf \in BOOLEAN : SynthStart(t, mf)
  \/ \E a \in G2PArpaOutcomes, mf \in BOOLEAN : SynthLookup(t, a, mf)
  \/ \E o \in MuteBackend, a \in G2PArpaOutcomes, mf \in BOOLEAN : GetTts(t, o, a, mf)
  \/ \E v \in G2PVisemeOutcomes, mf \in BOOLEAN : Enqueue(t, v, mf)

NextLive ==
  \E t \in {"t1"} :
    \/ \E e \in EngineConfigs, c \in ChunkLists, l \in BOOLEAN, mf \in BOOLEAN :
         ExecuteCall(t, e, SpeakSession, c, l, mf)
    \/ \E e \in EngineConfigs, x \in Sentences : SynthCall(t, e, SpeakSession, x)
    \/ CallStep(t)

SpecLive == Init /\ [][NextLive]_vars /\ WF_vars(CallStep("t1"))

\* One thread speaks while another stops: execute calls of engines without
\* a G2P provider on one thread, stop calls on the other, a playback
\* consumer attached at some point or never.
NextStop ==
  \/ \E e \in QuietEngines, c \in ChunkLists, l \in BOOLEAN :
       ExecuteCall("t1", e, SpeakSession, c, l, FALSE)
  \/ SynthStart("t1", FALSE)
  \/ GetCacheCreate("t1")
  \/ GetCacheReturn("t1")
  \/ \E a \in QuietArpa : SynthLookup("t1", a, FALSE)
  \/ \E o \in QuietBackend, a \in QuietArpa : GetTts("t1", o, a, FALSE)
  \/ \E v \in QuietVisemes : Enqueue("t1", v, FALSE)
  \/ InitPlayback
  \/ \E o \in PlaybackStopOutcomes, mf \in BOOLEAN : Stop("t2", o, mf)

SpecStop == Init /\ [][NextStop]_vars

\* The calls of several threads, one after the other: get_cache from any
\* context with any arguments, and the synth calls that use it.
Alone(t) == \A u \in Threads \ {t} : th[u].pc \in {"idle", "done"}

NextSeq ==
  \E t \in Threads :
    \/ \E s \in Sessions, x \in AudioExts, c \in {NoneStr, "custom"} :
         Alone(t) /\ GetCacheCall(t, s, x, c)
    \/ Alone(t) /\ GetCacheCreate(t)
    \/ Alone(t) /\ GetCacheReturn(t)
    \/ \E e \in QuietEngines, s \in Sessions, x \in Sentences :
         Alone(t) /\ SynthCall(t, e, s, x)
    \/ Alone(t) /\ SynthStart(t, FALSE)
    \/ \E a \in QuietArpa : Alone(t) /\ SynthLookup(t, a, FALSE)
    \/ \E o \in QuietBackend, a \in QuietArpa : Alone(t) /\ GetTts(t, o, a, FALSE)

SpecSeq == Init /\ [][NextSeq]_vars

\* The contexts of sessions whose identity fields are whatever the session's
\* preferences hold (lines 39-51): a plugin name, a voice that is a name or
\* the path of a voice file, a language.  Each thread makes one synth call,
\* one call after the other.
Contexts == [plugin_id : {"p", "q"}, voice : {"default", "/v"}, lang : {"en-us", "pt-pt"}]

NextNs ==
  \E t \in Threads :
    \/ \E e \in QuietEngines, s \in Contexts, x \in Sentences :
         th[t].pc = "idle" /\ Alone(t) /\ SynthCall(t, e, s, x)
    \/ SynthStart(t, FALSE)
    \/ GetCacheCreate(t)
    \/ GetCacheReturn(t)
    \/ \E a \in QuietArpa : SynthLookup(t, a, FALSE)
    \/ \E o \in QuietBackend, a \in QuietArpa : GetTts(t, o, a, FALSE)

SpecNs == Init /\ [][NextNs]_vars

\* Engines are constructed one after the other, by either thread, from a
\* process in which none was constructed before; between and during the
\* constructions, one thread makes execute calls on an engine that exists.
InitNoEngine ==
  /\ caches = <<>> /\ instances = <<>> /\ queue = <<>>
  /\ th = [t \in Threads |-> Idle] /\ ncalls = 0 /\ playback = NoPlayback
  /\ fx = NoFx
  /\ tts = NoEngine

NextQueue ==
  \/ \E t \in Threads : InitCall(t)
  \/ \E t \in Threads : InitQueueCreate(t)
  \/ \E t \in Threads, mf \in BOOLEAN : InitReturn(t, mf)
  \/ \E e \in QuietEngines, c \in ChunkLists, l \in BOOLEAN :
       tts.engines >= 1 /\ ExecuteCall("t1", e, SpeakSession, c, l, FALSE)
  \/ SynthStart("t1", FALSE)
  \/ GetCacheCreate("t1")
  \/ GetCacheReturn("t1")
  \/ \E a \in QuietArpa : SynthLookup("t1", a, FALSE)
  \/ \E o \in QuietBackend, a \in QuietArpa : GetTts("t1", o, a, FALSE)
  \/ \E v \in QuietVisemes : Enqueue("t1", v, FALSE)

SpecQueue == InitNoEngine /\ [][NextQueue]_vars

\* ------------------------------------------------------------------ claims
\* the playback items of one call, in queue order: their audio and flag
ItemsOf(q, m) ==
  LET sel == SelectSeq(q, LAMBDA it : it.message = m)
  IN [j \in 1..Len(sel) |-> <<sel[j].audio, sel[j].listen>>]

\* the audio path of a sentence synthesized by an engine in a session
ExpectedAudio(session, sentence) ==
  tts_id(session) \o "/" \o hash_sentence(sentence) \o "." \o EngineAudioExt

\* a step of thread t
Steps(t) == th'[t] # th[t]

\* C1: every Enqueue step of an execute call leaves the call's items on the
\* queue as one item per chunk synthesized so far, in chunk order, each with
\* the audio of its chunk; the flag of the item of the last chunk is the
\* caller's listen argument and every other flag is False; the call returns
\* exactly when the item of the last chunk is on the queue.
C1_ChunkOrder ==
  [][\A t \in Threads :
       (th[t].pc = "enqueue" /\ Steps(t)) =>
         LET me == th[t]
             n == Len(me.chunks)
         IN /\ ItemsOf(queue', me.msg) =
                 [j \in 1..me.i |-> <<ExpectedAudio(me.session, me.chunks[j][1]),
                                      j = n /\ me.listen>>]
            /\ (th'[t].pc = "done") <=> (me.i = n)
            /\ (th'[t].pc = "done") => (th'[t].err = NoneStr)]_vars

\* an execute call of two different chunks with listen=True has returned,
\* its two items on the queue
C1_Witness ==
  \E t \in Threads :
    /\ th[t].pc = "done" /\ th[t].op = "execute" /\ th[t].err = NoneStr
    /\ th[t].i = 3
    /\ LET its == ItemsOf(queue, th[t].msg)
       IN Len(its) = 2 /\ its[1][1] # its[2][1] /\ ~its[1][2] /\ its[2][2]

\* C2: a synth call of an engine with caching enabled that finds its
\* sentence in the namespace's cache returns the stored audio and does not
\* invoke the backend.
C2_SecondSynthIsCacheHit ==
  \A t \in Threads :
    (th[t].pc = "done" /\ th[t].op = "synth" /\ th[t].hit) =>
      /\ th[t].err = NoneStr
      /\ th[t].nback = 0
      /\ \E h \in DOMAIN instances[th[t].cache].cached_sentences :
           instances[th[t].cache].cached_sentences[h].audio = th[t].audio

\* the cache entry of the chunk thread t is synthesizing has audio only
AudioOnlyEntry(t) ==
  LET h == hash_sentence(th[t].chunks[th[t].i][1])
      d == instances[th[t].cache].cached_sentences
  IN h \in DOMAIN d /\ d[h].pho = NoneStr

\* C3: the lookup step of a synth call with caching enabled and a G2P
\* provider, on an entry cached with audio only, raises nothing, does not
\* invoke the backend, stores a phoneme artifact for the fingerprint and
\* returns the cached audio with those phonemes.
C3_HitBackfillsPhonemes ==
  [][\A t \in Threads :
       (th[t].pc = "lookup" /\ Steps(t) /\ th[t].eng.enable_cache /\ th[t].eng.g2p
          /\ AudioOnlyEntry(t)) =>
         LET h == hash_sentence(th[t].chunks[th[t].i][1])
             e == instances'[th[t].cache].cached_sentences[h]
         IN /\ th'[t].err = NoneStr
            /\ th'[t].nback = th[t].nback
            /\ e.pho # NoneStr
            /\ th'[t].audio = e.audio
            /\ th'[t].phonemes = e.pho]_vars

\* C4: the step in which get_tts raises ends the call with the backend's
\* exception, puts nothing on the queue and leaves every cache as it was;
\* the call's items are those of the chunks before the failed one.
C4_BackendFailurePropagates ==
  [][\A t \in Threads :
       (th[t].pc = "get_tts" /\ Steps(t) /\ th'[t].bk = "Exception") =>
         /\ th'[t].pc = "done"
         /\ th'[t].err = "BackendError"
         /\ queue' = queue
         /\ instances' = instances
         /\ Len(ItemsOf(queue', th[t].msg)) = th[t].i - 1]_vars

\* an execute call has ended with the backend's exception on its second
\* chunk: the item of the first chunk is on the queue, and nothing else
C4_Witness ==
  \E t \in Threads :
    /\ th[t].pc = "done" /\ th[t].op = "execute" /\ th[t].bk = "Exception"
    /\ th[t].err = "BackendError" /\ th[t].i = 2
    /\ Len(ItemsOf(queue, th[t].msg)) = 1

\* C5: no call ends with the metric handler's exception, and a call during
\* which the handler raised ends as calls do when it does not: by returning,
\* or with an exception of the backend or of synth itself.
C5_MetricFailureContained ==
  \A t \in Threads :
    /\ th[t].err # "MetricHandlerError"
    /\ (th[t].mraised /\ th[t].pc = "done") =>
         /\ th[t].err \in {NoneStr, "BackendError", "TypeError", "AttributeError"}
         /\ (th[t].op = "execute" /\ th[t].err = NoneStr) =>
               Len(ItemsOf(queue, th[t].msg)) = th[t].i - 1

\* an execute call during which the metric handler raised has returned,
\* two items on the queue
C5_Witness ==
  \E t \in Threads :
    /\ th[t].pc = "done" /\ th[t].op = "execute" /\ th[t].mraised
    /\ th[t].err = NoneStr /\ th[t].i = 3
    /\ Len(ItemsOf(queue, th[t].msg)) = 2

\* C6: the Enqueue step in which utterance2visemes fails (out of vocabulary
\* or otherwise) raises nothing and puts the chunk's item on the queue, with
\* the chunk's audio and no viseme pair.
C6_G2PFailureDegrades ==
  [][\A t \in Threads :
       (th[t].pc = "enqueue" /\ Steps(t)
          /\ th'[t].g2pv \in {"OutOfVocabulary", "Exception"}) =>
         /\ th'[t].err = NoneStr
         /\ Len(queue') = Len(queue) + 1
         /\ LET it == queue'[Len(queue')]
            IN /\ it.message = th[t].msg
               /\ it.audio = th[t].audio
               /\ it.viseme.seq = <<>>]_vars

\* an execute call whose G2P provider failed unexpectedly has returned, its
\* item the last of the queue
C6_Witness ==
  \E t \in Threads :
    /\ th[t].pc = "done" /\ th[t].op = "execute" /\ th[t].g2pv = "Exception"
    /\ th[t].err = NoneStr
    /\ queue # <<>>
    /\ queue[Len(queue)].message = th[t].msg
    /\ queue[Len(queue)].viseme.seq = <<>>

\* C7: every playback item on the queue carries None or a non-empty list of
\* viseme pairs.
C7_NoEmptyVisemes ==
  \A k \in 1..Len(queue) : queue[k].viseme.none \/ queue[k].viseme.seq # <<>>

\* C8: every cache constructed so far is still the one registered for its
\* namespace (none was replaced or removed, none is a second cache of its
\* namespace), and every get_cache call returned the cache registered for
\* its namespace, whatever its audio_ext and cache_config.
C8_OneCachePerNamespace ==
  /\ \A k \in 1..Len(instances) :
       /\ instances[k].tts_id \in DOMAIN caches
       /\ caches[instances[k].tts_id] = k
  /\ \A t \in Threads :
       (th[t].pc = "done" /\ th[t].op = "get_cache") =>
          /\ tts_id(th[t].session) \in DOMAIN caches
          /\ th[t].cache = caches[tts_id(th[t].session)]

\* two get_cache calls for one namespace have returned, the second with
\* another audio_ext than the cache was constructed with
C8_Witness ==
  \E t, u \in Threads :
    /\ t # u
    /\ th[t].pc = "done" /\ th[t].op = "get_cache"
    /\ th[u].pc = "done" /\ th[u].op = "get_cache"
    /\ th[t].session = th[u].session
    /\ th[t].cache = th[u].cache
    /\ th[t].audio_ext # th[u].audio_ext
    /\ instances[th[u].cache].audio_file_type # th[u].audio_ext

\* C9: with execute calls running on several threads, every step that puts
\* an item of a call on the queue leaves that call's items as those of its
\* chunks 1..i in chunk order, and after every step of any thread a call
\* that is synthesizing its chunk i has the items of its chunks 1..i-1 on
\* the queue: synth of chunk k+1 starts only after the item of chunk k is
\* enqueued, whatever the other calls interleave.
C9_PerCallOrder ==
  [][\A t \in Threads :
       /\ (th[t].op = "execute" /\ th[t].pc = "enqueue" /\ Steps(t) /\ queue' # queue) =>
            ItemsOf(queue', th[t].msg) =
              [j \in 1..th[t].i |->
                 <<ExpectedAudio(th[t].session, th[t].chunks[j][1]), th[t].chunks[j][2]>>]
       /\ (th'[t].op = "execute" /\ th'[t].pc \notin {"idle", "done"}) =>
            ItemsOf(queue', th'[t].msg) =
              [j \in 1..(th'[t].i - 1) |->
                 <<ExpectedAudio(th'[t].session, th'[t].chunks[j][1]), th'[t].chunks[j][2]>>]]_vars

\* the items of two execute calls interleave on the queue
C9_Witness ==
  \E t, u \in Threads :
    /\ t # u
    /\ th[t].op = "execute" /\ th[u].op = "execute"
    /\ Len(queue) >= 3
    /\ queue[1].message = th[t].msg
    /\ queue[2].message = th[u].msg
    /\ queue[3].message = th[t].msg
    /\ queue[1].audio # queue[3].audio

\* C10: two get_cache calls for one namespace return the same cache, and
\* one cache only was constructed for it, also when the calls overlap.
C10_ConcurrentSingleton ==
  /\ \A t, u \in Threads :
       (th[t].pc = "done" /\ th[t].op = "get_cache"
          /\ th[u].pc = "done" /\ th[u].op = "get_cache"
          /\ th[t].session = th[u].session) => th[t].cache = th[u].cache
  /\ \A j, k \in 1..Len(instances) :
       instances[j].tts_id = instances[k].tts_id => j = k

\* C11: an execute call of n chunks that has started comes to its end,
\* though nothing is ever taken off the queue; and when it ends without an
\* exception of the backend or of the cache lookup, its n items are on the
\* queue.
C11_ExecuteCompletes ==
  \A m \in 1..MaxCalls, n \in 1..MaxChunks :
    (\E t \in Threads : /\ th[t].op = "execute" /\ th[t].msg = m
                         /\ th[t].pc \notin {"idle", "done"}
                         /\ Len(th[t].chunks) = n)
      ~> (\E t \in Threads : /\ th[t].op = "execute" /\ th[t].msg = m
                             /\ th[t].pc = "done"
                             /\ th[t].err = NoneStr => Len(ItemsOf(queue, m)) = n)

\* the second execute call has returned: its item is on the queue behind
\* the item of the first call, which nothing has taken off
C11_Witness ==
  \E t \in Threads :
    /\ th[t].pc = "done" /\ th[t].op = "execute" /\ th[t].err = NoneStr
    /\ th[t].msg = 2
    /\ Len(queue) = 2
    /\ queue[1].message = 1
    /\ queue[2].message = 2

\* the step of thread t is a get_tts call that returns: the backend has
\* written its output file, wav_file
BackendWrites(t, wav_file) ==
  /\ th[t].pc = "get_tts" /\ Steps(t)
  /\ th'[t].bk = "return"
  /\ th[t].audio = wav_file

\* C12: no step of a synth or execute call changes or removes a cache entry
\* that exists, and no backend call writes the audio file of an entry that
\* exists, the engine's caching enabled or not.
C12_EntryImmutable ==
  [][\A k \in 1..Len(instances) :
       \A h \in DOMAIN instances[k].cached_sentences :
         LET e == instances[k].cached_sentences[h]
         IN /\ h \in DOMAIN instances'[k].cached_sentences
            /\ instances'[k].cached_sentences[h] = e
            /\ \A t \in Threads : ~BackendWrites(t, e.audio)]_vars

\* character k of a string
CharAt(s, k) == SubSeq(s, k, k)

\* a call of validate_ssml has returned
SsmlDone == fx.fn = "validate_ssml" /\ fx.pc = "done"

\* C13: what validate_ssml returns for an engine with no supported tag has
\* no '<' with a '>' somewhere after it.
C13_NoTagsLeft ==
  (SsmlDone /\ fx.ssml_tags = {}) =>
    ~ \E i, j \in 1..Len(fx.out) :
         i < j /\ CharAt(fx.out, i) = "<" /\ CharAt(fx.out, j) = ">"

\* validate_ssml has removed a tag for an engine with no supported tag and
\* left a stray '>' and text in place
C13_Witness ==
  /\ SsmlDone /\ fx.ssml_tags = {}
  /\ fx.out # fx.utterance
  /\ \E i, j \in 1..Len(fx.out) : CharAt(fx.out, i) = ">" /\ CharAt(fx.out, j) = "h"

\* where the first tag of s (a '<', the characters up to the next '>', and
\* that '>') starts and ends; <<0, 0>> when s has no tag
FirstTagOf(s) ==
  LET opens == {a \in 1..Len(s) :
                  CharAt(s, a) = "<" /\ \E b \in (a + 1)..Len(s) : CharAt(s, b) = ">"}
  IN IF opens = {} THEN <<0, 0>>
     ELSE LET a == CHOOSE x \in opens : \A y \in opens : x <= y
              closes == {b \in (a + 1)..Len(s) : CharAt(s, b) = ">"}
          IN <<a, CHOOSE x \in closes : \A y \in closes : x <= y>>

\* a supported tag name occurs in the tag
NameIn(tag, names) ==
  \E n \in names : \E k \in 1..Len(tag) :
    k + Len(n) - 1 <= Len(tag) /\ SubSeq(tag, k, k + Len(n) - 1) = n

\* s with each of its tags kept when a supported name occurs in it and
\* left out when none does, the text outside the tags as it is
RECURSIVE Filtered(_, _)
Filtered(s, names) ==
  LET m == FirstTagOf(s)
      tag == SubSeq(s, m[1], m[2])
  IN IF m[1] = 0 THEN s
     ELSE SubSeq(s, 1, m[1] - 1)
            \o (IF NameIn(tag, names) THEN tag ELSE "")
            \o Filtered(SubSeq(s, m[2] + 1, Len(s)), names)

\* no tag of s has a second '<' in it
RECURSIVE PlainTags(_)
PlainTags(s) ==
  LET m == FirstTagOf(s)
  IN m[1] = 0 \/ /\ \A k \in (m[1] + 1)..m[2] : CharAt(s, k) # "<"
                 /\ PlainTags(SubSeq(s, m[2] + 1, Len(s)))

\* s with each pair of spaces, from the left, made one space
RECURSIVE Collapsed(_)
Collapsed(s) ==
  IF Len(s) < 2 THEN s
  ELSE IF SubSeq(s, 1, 2) = "  " THEN " " \o Collapsed(SubSeq(s, 3, Len(s)))
  ELSE CharAt(s, 1) \o Collapsed(SubSeq(s, 2, Len(s)))

\* C14 as stated: for a non-empty supported-tag set validate_ssml returns
\* the utterance with each tag kept when a supported name occurs in it and
\* removed when none does, all text outside the tags preserved.
C14_TagsFilteredExactly ==
  (SsmlDone /\ fx.ssml_tags # {}) => fx.out = Filtered(fx.utterance, fx.ssml_tags)

\* C14: for a non-empty supported-tag set and an utterance none of whose
\* tags has a second '<' in it, validate_ssml returns the utterance with each
\* tag kept when a supported name occurs in it and removed when none does,
\* and the text outside the tags preserved but for doubled spaces, each made
\* one space in the result.
C14_TagsFiltered ==
  (SsmlDone /\ fx.ssml_tags # {} /\ PlainTags(fx.utterance)) =>
    fx.out = Collapsed(Filtered(fx.utterance, fx.ssml_tags))

\* validate_ssml has kept a supported tag, removed an unsupported one and
\* left the text
C14_Witness ==
  /\ SsmlDone /\ fx.ssml_tags = {"speak"} /\ PlainTags(fx.utterance)
  /\ fx.utterance = "<speak><b>hi"
  /\ fx.out = "<speak>hi"

\* C15: for an engine that supports the speak tag, validate_ssml returns an
\* utterance that has neither <speak> nor </speak> wrapped in
\* <speak>...</speak>, and returns the empty string for an utterance whose
\* normalised form is exactly <speak></speak>.
C15_SpeakNormalised ==
  (SsmlDone /\ "speak" \in fx.ssml_tags) =>
    /\ (~NameIn(fx.utterance, {"<speak>", "</speak>"})) =>
          /\ Len(fx.out) >= 15
          /\ SubSeq(fx.out, 1, 7) = "<speak>"
          /\ SubSeq(fx.out, Len(fx.out) - 7, Len(fx.out)) = "</speak>"
    /\ (fx.speak = "") => (fx.out = "")

\* the parameter names get_tts declares
Declared == DOMAIN fx.parameters

\* the keys synth has for the backend: the caller's, and lang and voice,
\* which synth sets from the context
KeysGiven == DOMAIN fx.kwargs \cup {"lang", "voice"}

\* C16: the keyword arguments get_tts is called with are the entries whose
\* key is a parameter name get_tts declares, sentence and wav_file left out
\* (lang and voice with the values of the context); no other key reaches
\* the backend, and the call fails on none of the keys dropped: if it fails,
\* it does on a key that was kept, the name of a *args parameter.
C16_KwargsFiltered ==
  (fx.fn = "synth" /\ fx.pc = "done") =>
    /\ DOMAIN fx.passed = (KeysGiven \cap Declared) \ {"sentence", "wav_file"}
    /\ \A k \in DOMAIN fx.passed :
         fx.passed[k] = IF k = "lang" THEN fx.session.lang
                        ELSE IF k = "voice" THEN fx.session.voice
                        ELSE fx.kwargs[k]
    /\ (fx.exc # NoneStr) =>
         \E k \in DOMAIN fx.passed : fx.parameters[k] = "VAR_POSITIONAL"
    /\ (\A n \in Declared : fx.parameters[n] = "POSITIONAL_OR_KEYWORD") =>
         fx.exc = NoneStr

\* synth was given speed, message and wav_file, on an engine whose get_tts
\* declares lang and speed: lang and speed were passed, message, voice and
\* wav_file dropped, and the call was made
C16_Witness ==
  /\ fx.fn = "synth" /\ fx.pc = "done"
  /\ DOMAIN fx.kwargs = {"speed", "message", "wav_file"}
  /\ Declared = {"sentence", "wav_file", "lang", "speed"}
  /\ DOMAIN fx.passed = {"lang", "speed"}
  /\ fx.exc = NoneStr

\* C17: for a phoneme string of k tokens, each a bare phoneme or
\* phoneme:duration, viseme returns k pairs in token order: the code the
\* table has for the phoneme, '4' when it has none, with the duration
\* written in the token, or 0.2 seconds for a bare phoneme.
C17_VisemePairs ==
  (fx.fn = "viseme" /\ fx.pc = "done") =>
    /\ ~fx.out.none
    /\ Len(fx.out.seq) = Len(fx.tokens)
    /\ \A j \in 1..Len(fx.tokens) :
         LET tk == fx.tokens[j]
         IN /\ fx.out.seq[j][1] = IF tk.pho \in DOMAIN VISIMES THEN VISIMES[tk.pho] ELSE "4"
            /\ fx.out.seq[j][2] = IF tk.timed THEN tk.dur.tenths ELSE 2

\* viseme has returned the pairs of a bare phoneme the table has not and
\* of a phoneme the table has, with its duration
C17_Witness ==
  /\ fx.fn = "viseme" /\ fx.pc = "done"
  /\ fx.phonemes = "HH v:1.5"
  /\ fx.out.seq = << <<"4", 2>>, <<"5", 15>> >>

\* C18: a step of stop changes neither the queue nor a cache nor the call
\* of another thread, raises nothing, the consumer's stop raising or not,
\* and calls the consumer's stop once when a consumer is attached.
C18_StopOnlySignals ==
  [][\A t \in Threads :
       (th'[t].op = "stop" /\ Steps(t)) =>
         /\ queue' = queue
         /\ caches' = caches
         /\ instances' = instances
         /\ \A u \in Threads \ {t} : th'[u] = th[u]
         /\ th'[t].pc = "done" /\ th'[t].err = NoneStr
         /\ playback'.attached = playback.attached
         /\ playback'.stops = playback.stops + (IF playback.attached THEN 1 ELSE 0)]_vars

\* stop has returned, the consumer's stop having raised, while the get_tts
\* call of an execute on the other thread is in flight, an item of its first
\* chunk on the queue
C18_Witness ==
  \E t, u \in Threads :
    /\ th[t].op = "stop" /\ th[t].pc = "done" /\ th[t].bk = "Exception"
    /\ th[t].err = NoneStr
    /\ playback.stops = 1
    /\ th[u].op = "execute" /\ th[u].pc = "get_tts" /\ th[u].i = 2
    /\ th[u].msg < th[t].msg
    /\ Len(queue) = 1

\* C19: the lookup step of a synth call with caching enabled and no G2P
\* provider, on an entry cached with audio only, raises nothing, goes on
\* without the backend and returns the cached audio with no phonemes.
C19_HitWithoutG2P ==
  [][\A t \in Threads :
       (th[t].pc = "lookup" /\ Steps(t) /\ th[t].eng.enable_cache /\ ~th[t].eng.g2p
          /\ AudioOnlyEntry(t)) =>
         /\ th'[t].err = NoneStr
         /\ th'[t].pc # "get_tts"
         /\ th'[t].nback = th[t].nback
         /\ th'[t].hit
         /\ th'[t].audio =
              instances[th[t].cache].cached_sentences[hash_sentence(th[t].chunks[th[t].i][1])].audio
         /\ ~truthy(th'[t].phonemes)]_vars

\* C20: a synth of an engine with caching disabled goes from the lookup to
\* the backend call, an entry for the fingerprint being there or not, and
\* neither step writes or changes a cache entry.
C20_DisabledCacheBypassed ==
  [][\A t \in Threads :
       (Steps(t) /\ ~th[t].eng.enable_cache) =>
         /\ (th[t].pc = "lookup") =>
               /\ th'[t].pc = "get_tts" /\ ~th'[t].hit
               /\ instances' = instances
         /\ (th[t].pc = "get_tts") =>
               /\ th'[t].nback = th[t].nback + 1
               /\ instances' = instances]_vars

\* the backend has returned in an execute of an engine with caching
\* disabled, for a sentence whose entry an earlier call has cached
C20_Witness ==
  \E t \in Threads :
    /\ th[t].op = "execute" /\ th[t].pc = "enqueue" /\ ~th[t].eng.enable_cache
    /\ th[t].nback = 1 /\ th[t].bk = "return" /\ ~th[t].hit
    /\ hash_sentence(th[t].chunks[th[t].i][1])
         \in DOMAIN instances[th[t].cache].cached_sentences

\* thread t's synth call has got its cache from get_cache
HasCache(t) == th[t].op = "synth" /\ th[t].cache # 0

\* C21: of two synth calls whose contexts differ in plugin_id, voice or
\* lang, the caches are different instances, and the later call does not
\* find in its cache the sentence the earlier call cached: a call that hits
\* follows a call of the same context whose backend returned.
C21_NamespacePerTriple ==
  \A t \in Threads : \A u \in Threads \ {t} :
    /\ (HasCache(t) /\ HasCache(u) /\ th[t].session # th[u].session)
         => th[t].cache # th[u].cache
    /\ (HasCache(t) /\ th[t].hit)
         => /\ th[u].op = "synth" /\ th[u].bk = "return"
            /\ th[u].session = th[t].session

\* the sentence with each word whose lowercase form is a key of the table
\* replaced by the key's value, and everything else as it is
RECURSIVE Spelled(_, _)
Spelled(s, spellings) ==
  IF s = "" THEN ""
  ELSE LET n == word_run(s)
           w == SubSeq(s, 1, n)
       IN IF n = 0 THEN SubSeq(s, 1, 1) \o Spelled(SubSeq(s, 2, Len(s)), spellings)
          ELSE (IF lower(w) \in DOMAIN spellings THEN spellings[lower(w)] ELSE w)
                 \o Spelled(SubSeq(s, n + 1, Len(s)), spellings)

\* C22: with phonetic spelling enabled, _replace_phonetic_spellings returns
\* the sentence with each word whose lowercase form is a key of the spelling
\* table replaced by its replacement, every other word and all other text
\* unchanged; with phonetic spelling disabled or an empty table it returns
\* the sentence unchanged.
C22_WordsRespelled ==
  (fx.fn = "replace_phonetic_spellings" /\ fx.pc = "done") =>
     /\ fx.phonetic_spelling => fx.out = Spelled(fx.sentence, fx.spellings)
     /\ (~fx.phonetic_spelling \/ DOMAIN fx.spellings = {}) => fx.out = fx.sentence

\* a step of a construction on thread t
InitSteps(t) == th[t].op = "init" /\ th[t].pc # "done" /\ Steps(t)

\* C23: once an engine is constructed TTS.queue is a queue, the first one
\* that was made; a queue that exists is never replaced, and no step of a
\* construction that finds it takes an item off it.
C23_OneQueue ==
  [][/\ tts'.engines >= 1 => tts'.queue = 1
     /\ tts.queue # 0 => tts'.queue = tts.queue
     /\ \A t \in Threads :
          (InitSteps(t) /\ tts.queue # 0) => queue' = queue]_vars

\* two engines are constructed, an execute call has put its two items on
\* the queue, and the queue is the first one with the items on it
C23_Witness ==
  /\ tts.engines = 2 /\ tts.queue = 1
  /\ th["t2"].op = "init" /\ th["t2"].pc = "done"
  /\ th["t1"].op = "execute" /\ th["t1"].pc = "done"
  /\ Len(queue) = 2

\* thread t's execute call has ended with the exception its synth raised
\* (nothing else in _execute raises in these runs), by this step or before
SynthFailed(t) ==
  /\ th[t].op = "execute" /\ th'[t].op = "execute" /\ th'[t].msg = th[t].msg
  /\ th'[t].pc = "done" /\ th'[t].err # NoneStr

\* C24: when synth raises on chunk k of an execute call, the step that ends
\* the call and every later step of any thread leave the call's items on
\* the queue as they were: the k-1 items of the chunks before k, none of
\* them with a true listen flag.
C24_FailureKeepsPrefix ==
  [][\A t \in Threads :
       SynthFailed(t) =>
         LET its == ItemsOf(queue', th'[t].msg)
         IN /\ its = ItemsOf(queue, th[t].msg)
            /\ Len(its) = th'[t].i - 1
            /\ \A j \in 1..Len(its) : its[j][2] = FALSE]_vars

\* an execute call failed on its second chunk, and the item of its first
\* chunk is on the queue with an item of the other thread behind it
C24_Witness ==
  /\ th["t1"].op = "execute" /\ th["t1"].pc = "done"
  /\ th["t1"].err = "BackendError" /\ th["t1"].i = 2
  /\ Len(queue) = 2
  /\ queue[1].message = th["t1"].msg
  /\ queue[2].message # th["t1"].msg

\* the context's value of lang or voice
ContextValue(session, k) == IF k = "lang" THEN session.lang ELSE session.voice

\* C25: when synth has called get_tts, a lang or voice among the keyword
\* arguments it passed has the value of the session context, and no lang or
\* voice value that the caller gave is among them.
C25_ContextLangVoice ==
  (fx.fn = "synth" /\ fx.pc = "done") =>
     \A k \in {"lang", "voice"} \cap DOMAIN fx.passed :
       /\ fx.passed[k] = ContextValue(fx.session, k)
       /\ fx.passed[k] # "given"

\* the caller gave a lang and a voice, get_tts declares both, and the call
\* was made with the context's lang and voice
C25_Witness ==
  /\ fx.fn = "synth" /\ fx.pc = "done"
  /\ {"lang", "voice"} \subseteq DOMAIN fx.kwargs
  /\ {"lang", "voice"} \subseteq DOMAIN fx.parameters
  /\ fx.passed["lang"] = fx.session.lang
  /\ fx.passed["voice"] = fx.session.voice
  /\ fx.exc = NoneStr
====
